---- MODULE Spec2Model ----
(***************************************************************************)
(* Model of src/src/lib.rs: HighlightRange::new, validate_ranges and       *)
(* highlight_text.                                                         *)
(*                                                                         *)
(* A text is a sequence of one-byte characters, so that a byte offset of   *)
(* the Rust &str is an index of the sequence (the texts of the test suite  *)
(* are ASCII).  The output String is modelled character by character: the  *)
(* marker "<em>" is four characters, "</em>" five.                         *)
(*                                                                         *)
(* One run of the model is one use of the library: the caller builds a     *)
(* Vec<HighlightRange> with HighlightRange::new, then calls                *)
(* highlight_text, whose fold over the sorted boundaries is taken one      *)
(* closure call at a time.                                                 *)
(***************************************************************************)
EXTENDS Integers, Sequences, FiniteSets, TLC

\* Bounds of the model.
MaxLen == 3
MaxRanges == 3

\* The characters a text is made of; none of them occurs in a marker.
Letters == <<"a", "b", "c", "d", "e", "f", "g", "h">>

\* The texts handed to highlight_text: pairwise different characters, so that
\* a lost, repeated or displaced character always shows in the output.
Texts == {SubSeq(Letters, 1, n) : n \in 0..MaxLen}

\* The arguments handed to HighlightRange::new for a text of length n: every
\* offset of the text, its length, and one value past it.
Values(n) == 0..(n + 1)

\* "<em>" and "</em>" (lib.rs:102-103)
EmOpen == <<"<", "e", "m", ">">>
EmClose == <<"<", "/", "e", "m", ">">>

VARIABLES
    input,       \* the &str handed to highlight_text
    highlights,  \* the Vec<HighlightRange> the caller builds
    call,        \* the arguments of the last HighlightRange::new call
    pc,          \* "build", "fold" or "done"
    result,      \* "none", "Ok", "OverlappingRanges", "RangesOutOfBounds", "panic"
    events,      \* the sorted Vec<(usize, HighlightingBoundry)> of highlight_text
    idx,         \* the next element of events the fold visits
    out,         \* FoldState.out
    offset,      \* FoldState.offset
    ret          \* the String highlight_text returns

vars == <<input, highlights, call, pc, result, events, idx, out, offset, ret>>

----------------------------------------------------------------------------
\* HighlightRange::new without the swap.
New_NoSwap(lower, upper) == [lower |-> lower, upper |-> upper]

\* HighlightRange::new (lib.rs:27-36)
New(lower, upper) ==
    IF lower < upper
    THEN [lower |-> lower, upper |-> upper]
    ELSE [lower |-> upper, upper |-> lower]

\* slice::sort_by_key: a stable sort, elements of equal key keep their order.
\* key[i] is the key of s[i].
StableSortByKey(s, key) ==
    LET n == Len(s)
        rank(i) == 1 + Cardinality({j \in 1..n :
                        \/ key[j] < key[i]
                        \/ (key[j] = key[i] /\ j < i)})
    IN  [k \in 1..n |-> s[CHOOSE i \in 1..n : rank(i) = k]]

\* The bounds test that forgets the lower bound.
OutOfBounds_UpperOnly(input_len, h) == h.upper > input_len

\* The bounds test of one range (lib.rs:44)
OutOfBounds(input_len, h) == h.upper > input_len \/ h.lower >= input_len

\* The copy that is left unsorted.
SortByLower_Unsorted(hs) == hs

\* sorted = highlights.clone(); sorted.sort_by_key(|r| r.lower) (lib.rs:49-50)
SortByLower(hs) == StableSortByKey(hs, [i \in 1..Len(hs) |-> hs[i].lower])

\* validate_ranges (lib.rs:39-59)
validate_ranges(input_len, hs) ==
    IF \E i \in 1..Len(hs) : OutOfBounds(input_len, hs[i])
    THEN "RangesOutOfBounds"
    ELSE LET sorted == SortByLower(hs)
         IN  IF \E i \in 2..Len(sorted) : sorted[i].lower < sorted[i - 1].upper
             THEN "OverlappingRanges"
             ELSE "Ok"

\* The flat_map of highlight_text: Start then End of each range, in the order
\* of the ranges (lib.rs:84-92)
Boundaries(hs) ==
    [k \in 1..(2 * Len(hs)) |->
        IF k % 2 = 1
        THEN [pos |-> hs[(k + 1) \div 2].lower, kind |-> "Start"]
        ELSE [pos |-> hs[k \div 2].upper, kind |-> "End"]]

\* The boundaries left unsorted.
SortByIdx_Unsorted(bs) == bs

\* highlights.sort_by_key(|(idx, _)| *idx) (lib.rs:94)
SortByIdx(bs) == StableSortByKey(bs, [i \in 1..Len(bs) |-> bs[i].pos])

\* One marker text for both kinds.
Marker_AlwaysOpen(kind) == EmOpen

\* The marker of a boundary (lib.rs:101-104)
Marker(kind) == IF kind = "Start" THEN EmOpen ELSE EmClose

\* &s[from..to] is defined when from <= to <= s.len(), and panics otherwise.
SliceOk(s, from, to) == from <= to /\ to <= Len(s)
Slice(s, from, to) == SubSeq(s, from + 1, to)

\* The fold that never moves its offset.
NextOffset_Stuck(state_offset, next_high_pos) == state_offset

\* state.offset = *next_high_pos (lib.rs:105)
NextOffset(state_offset, next_high_pos) == next_high_pos

\* The return value without the rest of the input.
Returned_NoRest(state_out, state_offset, text) == state_out

\* out.out + &input[out.offset..] (lib.rs:110)
Returned(state_out, state_offset, text) ==
    state_out \o Slice(text, state_offset, Len(text))

----------------------------------------------------------------------------
Init ==
    /\ input \in Texts
    /\ highlights = <<>>
    /\ call = <<>>
    /\ pc = "build"
    /\ result = "none"
    /\ events = <<>>
    /\ idx = 1
    /\ out = <<>>
    /\ offset = 0
    /\ ret = <<>>

\* The caller pushes HighlightRange::new(a, b) (lib.rs:27-36)
NewRange ==
    /\ pc = "build"
    /\ Len(highlights) < MaxRanges
    /\ \E a, b \in Values(Len(input)) :
        /\ highlights' = Append(highlights, New(a, b))
        /\ call' = <<a, b>>
    /\ UNCHANGED <<input, pc, result, events, idx, out, offset, ret>>

\* highlight_text up to the fold: validation, and on success the sorted
\* boundaries and FoldState::from(input) (lib.rs:78-97, 68-76)
Enter ==
    /\ pc = "build"
    /\ LET v == validate_ranges(Len(input), highlights)
       IN  IF v # "Ok"
           THEN /\ pc' = "done"
                /\ result' = v
                /\ UNCHANGED <<events, idx, out, offset>>
           ELSE /\ pc' = "fold"
                /\ events' = SortByIdx(Boundaries(highlights))
                /\ idx' = 1
                /\ out' = <<>>
                /\ offset' = 0
                /\ UNCHANGED result
    /\ UNCHANGED <<input, highlights, call, ret>>

\* One call of the fold's closure (lib.rs:98-107)
FoldStep ==
    /\ pc = "fold"
    /\ idx <= Len(events)
    /\ LET next_high_pos == events[idx].pos
           next_high_kind == events[idx].kind
       IN  IF SliceOk(input, offset, next_high_pos)
           THEN /\ out' = out \o Slice(input, offset, next_high_pos)
                              \o Marker(next_high_kind)
                /\ offset' = NextOffset(offset, next_high_pos)
                /\ idx' = idx + 1
                /\ UNCHANGED <<pc, result>>
           ELSE /\ pc' = "done"
                /\ result' = "panic"
                /\ UNCHANGED <<out, offset, idx>>
    /\ UNCHANGED <<input, highlights, call, events, ret>>

\* Ok(out.out + &input[out.offset..]) (lib.rs:110)
Return ==
    /\ pc = "fold"
    /\ idx > Len(events)
    /\ IF SliceOk(input, offset, Len(input))
       THEN /\ ret' = Returned(out, offset, input)
            /\ result' = "Ok"
       ELSE /\ result' = "panic"
            /\ UNCHANGED ret
    /\ pc' = "done"
    /\ UNCHANGED <<input, highlights, call, events, idx, out, offset>>

Next == NewRange \/ Enter \/ FoldStep \/ Return

Spec == Init /\ [][Next]_vars

----------------------------------------------------------------------------
\* Reading an output text back: its markers and the characters between them.

HasPrefix(s, p) == Len(s) >= Len(p) /\ SubSeq(s, 1, Len(p)) = p
Drop(s, n) == SubSeq(s, n + 1, Len(s))

\* The text with every "<em>" and "</em>" deleted.
RECURSIVE Strip(_)
Strip(s) ==
    IF s = <<>> THEN <<>>
    ELSE IF HasPrefix(s, EmOpen) THEN Strip(Drop(s, Len(EmOpen)))
    ELSE IF HasPrefix(s, EmClose) THEN Strip(Drop(s, Len(EmClose)))
    ELSE <<Head(s)>> \o Strip(Tail(s))

\* The markers of a text, left to right: the kind of each, the number of
\* characters of the stripped text before it (pos), and the index in s of
\* its first character (at).
RECURSIVE MarkersFrom(_, _, _)
MarkersFrom(s, at, pos) ==
    IF at > Len(s) THEN <<>>
    ELSE IF HasPrefix(Drop(s, at - 1), EmOpen)
         THEN <<[pos |-> pos, kind |-> "Start", at |-> at]>>
              \o MarkersFrom(s, at + Len(EmOpen), pos)
    ELSE IF HasPrefix(Drop(s, at - 1), EmClose)
         THEN <<[pos |-> pos, kind |-> "End", at |-> at]>>
              \o MarkersFrom(s, at + Len(EmClose), pos)
    ELSE MarkersFrom(s, at + 1, pos + 1)

MarkersOf(s) == MarkersFrom(s, 1, 0)

\* How many elements of the sequence s satisfy s[i] = x.
Count(s, x) == Cardinality({i \in 1..Len(s) : s[i] = x})

\* Starts minus Ends among the first k markers.
Depth(ms, k) ==
    Cardinality({i \in 1..k : ms[i].kind = "Start"})
    - Cardinality({i \in 1..k : ms[i].kind = "End"})

\* The permutations of a sequence.
Perms(s) ==
    LET n == Len(s)
    IN  {[i \in 1..n |-> s[f[i]]] :
            f \in {g \in [1..n -> 1..n] : \A i, j \in 1..n : g[i] = g[j] => i = j}}

Min(a, b) == IF a < b THEN a ELSE b
Max(a, b) == IF a < b THEN b ELSE a

Returned_Ok == pc = "done" /\ result = "Ok"
Validated == pc # "build"
\* What validate_ranges answered in this run.
Verdict == IF pc = "done" /\ result \in {"OverlappingRanges", "RangesOutOfBounds"}
           THEN result ELSE "Ok"

InBounds(h) == h.upper <= Len(input) /\ h.lower < Len(input)
Overlap(a, b) == a.lower < b.upper /\ b.lower < a.upper
Proper(h) == h.lower < h.upper

----------------------------------------------------------------------------
C2_OutOfBoundsExactly ==
    Validated =>
        (Verdict = "RangesOutOfBounds"
            <=> \E i \in 1..Len(highlights) : ~InBounds(highlights[i]))

\* Two overlapping in-bounds ranges followed by a range whose upper is past
\* the end were answered with RangesOutOfBounds.
C2_Witness ==
    /\ pc = "done"
    /\ result = "RangesOutOfBounds"
    /\ Len(highlights) = 3
    /\ InBounds(highlights[1]) /\ InBounds(highlights[2])
    /\ Proper(highlights[1]) /\ Proper(highlights[2])
    /\ Overlap(highlights[1], highlights[2])
    /\ highlights[3].upper > Len(input)

\* C3: for in-bounds ranges with lower < upper, in any order, validation
\* answers OverlappingRanges exactly when two ranges at different indices
\* share a position; ranges that only touch pass.
C3_OverlapExactly ==
    (Validated /\ \A i \in 1..Len(highlights) :
                      InBounds(highlights[i]) /\ Proper(highlights[i]))
    => (Verdict = "OverlappingRanges"
            <=> \E i, j \in 1..Len(highlights) :
                    i # j /\ Overlap(highlights[i], highlights[j]))

\* An overlap between the first and the third range of an unsorted sequence,
\* neither of which overlaps the second, was answered with OverlappingRanges.
C3_Witness ==
    /\ pc = "done"
    /\ result = "OverlappingRanges"
    /\ Len(highlights) = 3
    /\ \A i \in 1..3 : InBounds(highlights[i]) /\ Proper(highlights[i])
    /\ Overlap(highlights[1], highlights[3])
    /\ ~Overlap(highlights[1], highlights[2])
    /\ ~Overlap(highlights[2], highlights[3])
    /\ highlights[2].lower < highlights[1].lower

\* C4: when highlight_text returns Ok for ranges with lower < upper, the
\* markers of the returned text are never nested (Starts minus Ends is 0 or 1
\* after every marker), and where one range ends at the offset another starts
\* at, a "</em>" at that offset is directly followed by the "<em>" there.
C4_TouchingNotNested ==
    (Returned_Ok /\ \A i \in 1..Len(highlights) : Proper(highlights[i])) =>
        LET ms == MarkersOf(ret)
        IN  /\ \A k \in 0..Len(ms) : Depth(ms, k) \in {0, 1}
            /\ \A i, j \in 1..Len(highlights) :
                (i # j /\ highlights[i].upper = highlights[j].lower) =>
                    \E m \in 1..(Len(ms) - 1) :
                        /\ ms[m].kind = "End"
                        /\ ms[m].pos = highlights[i].upper
                        /\ ms[m + 1].kind = "Start"
                        /\ ms[m + 1].pos = highlights[j].lower

\* C5: when highlight_text returns Ok, the returned text is 9 characters
\* longer than the input for every range.
C5_LengthGrowth ==
    Returned_Ok =>
        /\ Len(EmOpen) + Len(EmClose) = 9
        /\ Len(ret) = Len(input) + 9 * Len(highlights)

\* A non-empty text with at least two ranges has been highlighted.
C5_Witness ==
    /\ Returned_Ok
    /\ Len(highlights) >= 2
    /\ Len(input) > 0

\* C6: a range built from two equal arguments makes validation answer
\* RangesOutOfBounds, so every range of a sequence that passes validation
\* has 0 <= lower < upper <= input_length.
C6_ZeroWidthRejected ==
    Validated =>
        /\ (\E i \in 1..Len(highlights) : highlights[i].lower = highlights[i].upper)
            => Verdict = "RangesOutOfBounds"
        /\ Verdict = "Ok" =>
            \A i \in 1..Len(highlights) :
                /\ 0 <= highlights[i].lower
                /\ highlights[i].lower < highlights[i].upper
                /\ highlights[i].upper <= Len(input)

\* C7: highlight_text called with no range returns Ok and the input itself.
C7_NoRangesNoChange ==
    (pc = "done" /\ highlights = <<>>) => (result = "Ok" /\ ret = input)

\* A non-empty text has been highlighted with no range.
C7_Witness ==
    /\ pc = "done"
    /\ highlights = <<>>
    /\ input # <<>>

\* The empty text has been highlighted with no range.
C7_WitnessEmpty ==
    /\ pc = "done"
    /\ highlights = <<>>
    /\ input = <<>>

\* C8: the range HighlightRange::new(a, b) pushed last has lower = min(a, b)
\* and upper = max(a, b), and is the range HighlightRange::new(b, a).
C8_NewNormalizes ==
    call # <<>> =>
        LET a == call[1]
            b == call[2]
            h == highlights[Len(highlights)]
        IN  /\ h.lower = Min(a, b)
            /\ h.upper = Max(a, b)
            /\ h = New(b, a)

\* HighlightRange::new was called with its arguments in descending order.
C8_Witness ==
    /\ call # <<>>
    /\ call[1] > call[2]

C10_OrderIrrelevant ==
    Validated =>
        \A p \in Perms(highlights) : validate_ranges(Len(input), p) = Verdict

====
